---- MODULE Spec2Model ----
(***************************************************************************)
(* A model of downloadobex.py: the OBEX mirroring pipeline.                *)
(*   run -> get_obex_listing -> parse_obex_listing -> download_all_metadata *)
(*       -> download_all_objects -> download_object -> find_zips / extract  *)
(* Strings the code inspects character by character (file names, project   *)
(* titles) are sequences of one-character strings; a path is a sequence of *)
(* names relative to the directory that holds it.                          *)
(***************************************************************************)
EXTENDS Naturals, Sequences, FiniteSets

(* ------------------------------------------------------------------ *)
(* Bounds of the model                                                  *)
(* ------------------------------------------------------------------ *)
\* rows of the parsed listing after the header row (the last one is the footer)
MaxRows == 4
\* attachments of the project handed to a lone download_object task
MaxArtifacts == 3
\* projects of the catalog handed directly to download_all_objects
MaxProjects == 3
\* the longest run of parse events fed to a parser
MaxEvents == 10

(* ------------------------------------------------------------------ *)
(* Strings                                                              *)
(* ------------------------------------------------------------------ *)
\* str.lower() on the characters the model's names use
LowerChar(c) ==
    CASE c = "Z" -> "z"
      [] c = "I" -> "i"
      [] c = "P" -> "p"
      [] c = "E" -> "e"
      [] OTHER -> c

Lower(s) == [k \in 1..Len(s) |-> LowerChar(s[k])]

\* str.endswith
EndsWith(s, suffix) ==
    /\ Len(s) >= Len(suffix)
    /\ SubSeq(s, Len(s) - Len(suffix) + 1, Len(s)) = suffix

DotZip == <<".", "z", "i", "p">>

\* project_title.replace('/', '_')
project_dir_name(title) ==
    [k \in 1..Len(title) |-> IF title[k] = "/" THEN "_" ELSE title[k]]

\* os.path.dirname of a path below the project directory
dirname(p) == SubSeq(p, 1, Len(p) - 1)

\* the sequences over S of length at most n
RECURSIVE SeqsUpTo(_, _)
SeqsUpTo(S, n) ==
    IF n = 0 THEN {<<>>}
    ELSE LET shorter == SeqsUpTo(S, n - 1)
         IN  shorter \cup {Append(q, x) : q \in {r \in shorter : Len(r) = n - 1}, x \in S}

\* list.index(x): the first position of x, 0 standing for ValueError
Index(row, x) ==
    IF \E k \in 1..Len(row) : row[k] = x
    THEN CHOOSE k \in 1..Len(row) : row[k] = x /\ \A j \in 1..(k - 1) : row[j] # x
    ELSE 0

(* ------------------------------------------------------------------ *)
(* The remote catalog and the content of its files                      *)
(* ------------------------------------------------------------------ *)
N_a_zip == <<"a", ".", "z", "i", "p">>
N_b_zip == <<"b", ".", "z", "i", "p">>
N_c_txt == <<"c", ".", "t">>
N_e_ZIP == <<"e", ".", "Z", "I", "P">>
N_f_zip == <<"f", ".", "z", "i", "p">>
N_g_txt == <<"g", ".", "t">>
N_k_zip == <<"k", ".", "z", "i", "p">>
N_r_txt == <<"r", ".", "t">>
N_s     == <<"s">>

\* What zipfile.ZipFile(file).extractall writes, by content of the file:
\* pairs <<path inside the archive, content>>.  A content that is no key of
\* this table is not a zip archive (BadZipFile).
\*   ZA  a.zip holding b.zip (ZB), which holds c.t
\*   ZE  e.ZIP holding s/f.zip (ZF) and g.t
\*   ZK  k.zip holding r.t
ZipContents ==
    [ZA |-> {<< <<N_b_zip>>, "ZB" >>},
     ZB |-> {<< <<N_c_txt>>, "plain" >>},
     ZE |-> {<< <<N_s, N_f_zip>>, "ZF" >>, << <<N_g_txt>>, "plain" >>},
     ZF |-> {<< <<N_g_txt>>, "plain" >>},
     ZK |-> {<< <<N_r_txt>>, "plain" >>}]

is_zipfile(content) == content \in DOMAIN ZipContents

U_a == <<"u", "a">>
U_e == <<"u", "e">>
U_k == <<"u", "k">>
U_r == <<"u", "r">>
U_x == <<"u", "x">>
U_n == <<"u", "n">>
U_m == <<"u", "m">>
U_w == <<"u", "w">>

\* the host obexlistparser.py puts before every attachment href
OBEX_HOST == "http://obex.parallax.com"

\* response.read() of an attachment url, given with or without the host
UrlContent(url) ==
    LET path == IF url # <<>> /\ url[1] = OBEX_HOST THEN Tail(url) ELSE url
    IN  CASE path = U_a -> "ZA"
          [] path = U_e -> "ZE"
          [] path = U_k -> "ZK"
          [] path = U_x -> "corrupt"
          [] OTHER -> "plain"

\* Candidates as ObexObjectParser.feed returns them: [href, text, text, ...]
A_a == <<U_a, N_a_zip>>
A_e == <<U_e, N_e_ZIP>>
A_k == <<U_k, N_k_zip>>
A_r == <<U_r, N_r_txt>>
\* a .zip attachment whose content is not a zip archive
A_x == <<U_x, N_b_zip>>
\* an anchor without text, and one with two text fragments
A_n == <<U_n>>
A_m == <<U_m, N_r_txt, N_c_txt>>
\* an anchor whose text is white space: the name is the empty string
A_w == <<U_w, <<>>>>

Candidates == {A_a, A_e, A_k, A_r, A_x, A_n, A_m, A_w}

T_AsB == <<"A", "/", "B">>
T_AuB == <<"A", "_", "B">>
T_C   == <<"C">>
T_D   == <<"D">>

\* The detail page behind a listing link, as the list of its candidates
PageArtifacts(link) ==
    CASE link = "/p1" -> <<A_a, A_r>>
      [] link = "/p2" -> <<A_k>>
      [] link = "/p3" -> <<A_n>>
      [] OTHER -> <<>>

(* ------------------------------------------------------------------ *)
(* State                                                                *)
(* ------------------------------------------------------------------ *)
VARIABLES
    pc,          \* position of the main thread
    exc,         \* the exception the main thread is propagating ("none")
    outDir,      \* the output directory: "absent", "preexisting", "created"
    tablePath,   \* args.table was given
    tableFile,   \* the listing snapshot: "absent", "partial", "written"
    table,       \* the parsed listing table
    loop,        \* position of the main thread's current for loop
    mfutures,    \* futures of download_obex_object_metadata, in submit order
    metadata,    \* the catalog: a dict, kept as its items in insertion order
    tasks,       \* futures of download_object, in submit order
    fs,          \* project directory name -> (path -> content)
    parser       \* an HTML parser being fed, with the events it has handled

vars == <<pc, exc, outDir, tablePath, tableFile, table, loop, mfutures, metadata, tasks, fs, parser>>

\* no parser is being fed
NoParser == [class |-> "none"]

(* ------------------------------------------------------------------ *)
(* find_zips and extract                                                *)
(* ------------------------------------------------------------------ *)
\* find_zips(directory): os.walk visits the whole subtree; the result is used
\* as a set and as the iteration list of one expansion round
find_zips(files) ==
    {p \in DOMAIN files : EndsWith(Lower(p[Len(p)]), DotZip)}

\* zip_file.extractall(directory) with directory = os.path.dirname(file_path):
\* every member is written below the archive's own directory, replacing a
\* file of the same path
extractall(files, z) ==
    LET members == {<<dirname(z) \o m[1], m[2]>> : m \in ZipContents[files[z]]}
        written == {m[1] : m \in members}
    IN  [p \in (DOMAIN files) \cup written |->
            IF p \in written
            THEN (CHOOSE m \in members : m[1] = p)[2]
            ELSE files[p]]

\* os.walk is top-down: the files of a directory come before the files of
\* the directories below it; within a directory the order is the file system's
WalkBefore(p, q) ==
    /\ Len(p) < Len(q)
    /\ SubSeq(q, 1, Len(p) - 1) = dirname(p)

\* os.path.join(directory, name) names a directory: the project directory
\* itself for the empty name, or a directory an archive was expanded into
IsDirectory(files, name) ==
    \/ name = <<>>
    \/ \E p \in DOMAIN files : Len(p) > 1 /\ p[1] = name

\* open(output_path, 'wb') followed by output.write(response.read()):
\* the file exists and is empty as soon as it is opened
WriteFile(files, name, content) ==
    [p \in (DOMAIN files) \cup {<<name>>} |-> IF p = <<name>> THEN content ELSE files[p]]

BumpCount(f, x) ==
    [y \in (DOMAIN f) \cup {x} |-> IF y = x THEN (IF x \in DOMAIN f THEN f[x] + 1 ELSE 1) ELSE f[y]]

NoFiles == [p \in {} |-> "plain"]
NoCalls == [p \in {} |-> 0]

\* a future of download_object(directory, artifacts), not yet started
NewTask(dir, artifacts) ==
    [dir |-> dir, artifacts |-> artifacts, pc |-> "for", i |-> 1,
     zips |-> {}, extracted_zips |-> {}, todo |-> {},
     requests |-> [k \in 1..Len(artifacts) |-> 0],
     results |-> [k \in 1..Len(artifacts) |-> "pending"],
     calls |-> NoCalls, rounds |-> 0, grew |-> 0]

Finished(t) == t.pc \in {"returned", "raised"}

(* ------------------------------------------------------------------ *)
(* download_object: one project task                                    *)
(* ------------------------------------------------------------------ *)
\* a resolver that expands one round only: `if zips and not extracted_zips`
UnextractedRemain_once(zips, extracted_zips) == zips # {} /\ extracted_zips = {}

\* `while set(zips) - set(extracted_zips)`
UnextractedRemain(zips, extracted_zips) == zips \ extracted_zips # {}

\* `for z in zips`: the archives one expansion round passes to extract
RoundArchives(zips, extracted_zips) == zips

\* a round that ends without looking at the directory again
Rescan_stale(files, zips) == zips

\* `zips = find_zips(directory)` at the end of a round
Rescan(files, zips) == find_zips(files)

\* the round that ends surfaced a .zip path no scan had found before
Surfaced(files, zips) == ~ (find_zips(files) \subseteq zips)

\* the try around the whole for loop: the first failure ends the task
AfterCaught_stop(t, what) ==
    [t EXCEPT !.results[t.i] = what, !.pc = "returned", !.todo = {}]

\* no try at all: the failure leaves the task as its exception
AfterCaught_raise(t, what) ==
    [t EXCEPT !.results[t.i] = what, !.pc = "raised", !.todo = {}]

\* `except Exception` around the body of one attachment: the task goes on with
\* the next attachment
AfterCaught(t, what) ==
    [t EXCEPT !.results[t.i] = what, !.i = t.i + 1, !.pc = "for", !.todo = {}]

\* The head of `for url, name in artifacts` and `open(output_path, 'wb')`:
\* the file is there, empty, before the request is made; on a path that is a
\* directory open raises IsADirectoryError, which the except catches before
\* any request
download_object_for(k) ==
    LET t == tasks[k] IN
    /\ k \in 1..Len(tasks)
    /\ t.pc = "for"
    /\ IF t.i > Len(t.artifacts)
       THEN /\ tasks' = [tasks EXCEPT ![k].pc = "returned"]
            /\ UNCHANGED fs
       ELSE IF Len(t.artifacts[t.i]) # 2
       THEN \* ValueError of the unpacking, outside the try
            /\ tasks' = [tasks EXCEPT ![k].pc = "raised"]
            /\ UNCHANGED fs
       ELSE IF IsDirectory(fs[t.dir], t.artifacts[t.i][2])
       THEN /\ tasks' = [tasks EXCEPT ![k] = AfterCaught(t, "oserror")]
            /\ UNCHANGED fs
       ELSE /\ fs' = [fs EXCEPT ![t.dir] = WriteFile(@, t.artifacts[t.i][2], "empty")]
            /\ tasks' = [tasks EXCEPT ![k].pc = "urlopen"]
    /\ UNCHANGED <<parser, pc, exc, outDir, tablePath, tableFile, table, loop, mfutures, metadata>>

\* `urllib.request.urlopen(url)`, `output.write(response.read())` and the
\* first find_zips of the attachment
download_object_urlopen(k) ==
    LET t == tasks[k]
        url == t.artifacts[t.i][1]
        name == t.artifacts[t.i][2]
        asked == [t EXCEPT !.requests[t.i] = @ + 1]
    IN
    /\ k \in 1..Len(tasks)
    /\ t.pc = "urlopen"
    /\ \E ok \in BOOLEAN :
          IF ok
          THEN /\ fs' = [fs EXCEPT ![t.dir] = WriteFile(@, name, UrlContent(url))]
               /\ tasks' = [tasks EXCEPT ![k] =
                      [asked EXCEPT !.zips = find_zips(fs'[t.dir]),
                                    !.extracted_zips = {},
                                    !.rounds = 0,
                                    !.grew = 0,
                                    !.pc = "while"]]
          ELSE \* urlopen raised: the opened file stays, empty
               /\ tasks' = [tasks EXCEPT ![k] = AfterCaught(asked, "urlerror")]
               /\ UNCHANGED fs
    /\ UNCHANGED <<parser, pc, exc, outDir, tablePath, tableFile, table, loop, mfutures, metadata>>

\* The test of the while loop
download_object_while(k) ==
    LET t == tasks[k] IN
    /\ k \in 1..Len(tasks)
    /\ t.pc = "while"
    /\ IF UnextractedRemain(t.zips, t.extracted_zips)
       THEN tasks' = [tasks EXCEPT ![k].todo = RoundArchives(t.zips, t.extracted_zips),
                                   ![k].pc = "extract"]
       ELSE tasks' = [tasks EXCEPT ![k].results[t.i] = "done",
                                   ![k].i = t.i + 1,
                                   ![k].pc = "for"]
    /\ UNCHANGED <<parser, pc, exc, outDir, tablePath, tableFile, table, loop, mfutures, metadata, fs>>

\* One step of `for z in zips: extract(z, os.path.dirname(z))`, or the end of
\* the round: `extracted_zips += zips; zips = find_zips(directory)`
download_object_extract(k) ==
    LET t == tasks[k] IN
    /\ k \in 1..Len(tasks)
    /\ t.pc = "extract"
    /\ IF t.todo = {}
       THEN /\ tasks' = [tasks EXCEPT ![k].extracted_zips = @ \cup t.zips,
                                      ![k].zips = Rescan(fs[t.dir], t.zips),
                                      ![k].rounds = @ + 1,
                                      ![k].grew = IF Surfaced(fs[t.dir], t.zips)
                                                  THEN @ + 1 ELSE @,
                                      ![k].pc = "while"]
            /\ UNCHANGED fs
       ELSE \E z \in t.todo :
              /\ ~ \E y \in t.todo : WalkBefore(y, z)
              /\ LET called == [t EXCEPT !.calls = BumpCount(@, z)] IN
                 IF is_zipfile(fs[t.dir][z])
                 THEN /\ fs' = [fs EXCEPT ![t.dir] = extractall(@, z)]
                      /\ tasks' = [tasks EXCEPT ![k] = [called EXCEPT !.todo = @ \ {z}]]
                 ELSE \* BadZipFile, wrapped by extract and caught by download_object
                      /\ tasks' = [tasks EXCEPT ![k] = AfterCaught(called, "badzip")]
                      /\ UNCHANGED fs
    /\ UNCHANGED <<parser, pc, exc, outDir, tablePath, tableFile, table, loop, mfutures, metadata>>

(* ------------------------------------------------------------------ *)
(* run, get_obex_listing, parse_obex_listing                            *)
(* ------------------------------------------------------------------ *)
LINK_HEADER == "Link"
TITLE_HEADER == "Project Title"

\* Tables ObexListParser.feed can return: the first row starts with the
\* synthetic Link cell; a data row whose title cell is empty lacks that cell
Headers == {<<LINK_HEADER, TITLE_HEADER>>, <<LINK_HEADER, "Author">>}

ListingRows == {<<"/p1", T_AsB>>, <<"/p2", T_AuB>>, <<"/p3", T_C>>, <<"/p2">>}

Tables == {<<>>} \cup {<<h>> \o rows : h \in Headers, rows \in SeqsUpTo(ListingRows, MaxRows)}

\* `if os.path.exists(output_directory): ... exit(1)`
run_check ==
    /\ pc = "run"
    /\ IF outDir # "absent"
       THEN /\ pc' = "aborted"
            /\ exc' = "SystemExit"
       ELSE /\ pc' = "get_obex_listing"
            /\ UNCHANGED exc
    /\ UNCHANGED <<parser, outDir, tablePath, tableFile, table, loop, mfutures, metadata, tasks, fs>>

\* urllib.request.urlopen(link) and response.read().decode()
get_obex_listing ==
    /\ pc = "get_obex_listing"
    /\ \E ok \in BOOLEAN :
          IF ok
          THEN /\ pc' = "parse_obex_listing"
               /\ UNCHANGED exc
          ELSE /\ pc' = "aborted"
               /\ exc' = "URLError"
    /\ UNCHANGED <<parser, outDir, tablePath, tableFile, table, loop, mfutures, metadata, tasks, fs>>

\* `with open(table_file_path, 'w') as csv_file` happens before the parser is
\* fed, and feed writes the snapshot while it parses
SnapshotAfter(path_given, parsed) ==
    IF path_given THEN (IF parsed THEN "written" ELSE "partial") ELSE "absent"

parse_obex_listing ==
    /\ pc = "parse_obex_listing"
    /\ \/ \E t \in Tables :
            /\ table' = t
            /\ tableFile' = SnapshotAfter(tablePath, TRUE)
            /\ pc' = "download_all_metadata"
            /\ UNCHANGED exc
       \/ \* the parser raises (an anchor without href, text outside a row)
          /\ tableFile' = SnapshotAfter(tablePath, FALSE)
          /\ pc' = "aborted"
          /\ exc' = "ParseError"
          /\ UNCHANGED table
    /\ UNCHANGED <<parser, outDir, tablePath, loop, mfutures, metadata, tasks, fs>>

(* ------------------------------------------------------------------ *)
(* download_all_metadata                                                *)
(* ------------------------------------------------------------------ *)
\* future.done()
MetaFinished(f) == f.st \in {"ok", "raised"}

\* an executor that is not waited for
MetadataJoined_nowait(futures) == TRUE

\* ThreadPoolExecutor.__exit__ is shutdown(wait=True), and future.result()
\* blocks until its future is done
MetadataJoined(futures) == \A k \in 1..Len(futures) : MetaFinished(futures[k])

\* a loop that visits the last row as well
LastProjectRow_all(t) == Len(t)

\* the rows `for row in table[1:-1]` visits, as positions of the table
LastProjectRow(t) == Len(t) - 1

\* dict(results): a key keeps the place of its first pair and the value of
\* its last one
RECURSIVE DictOf(_)
DictOf(pairs) ==
    IF pairs = <<>> THEN <<>>
    ELSE LET n == Len(pairs)
             d == DictOf(SubSeq(pairs, 1, n - 1))
             p == pairs[n]
         IN  IF \E k \in 1..Len(d) : d[k][1] = p[1]
             THEN [k \in 1..Len(d) |-> IF d[k][1] = p[1] THEN p ELSE d[k]]
             ELSE Append(d, p)

\* table[0].index(...) twice
download_all_metadata_index ==
    /\ pc = "download_all_metadata"
    /\ IF table = <<>>
       THEN /\ pc' = "aborted"
            /\ exc' = "IndexError: table[0]"
            /\ UNCHANGED loop
       ELSE IF Index(table[1], LINK_HEADER) = 0 \/ Index(table[1], TITLE_HEADER) = 0
       THEN /\ pc' = "aborted"
            /\ exc' = "ValueError: not in list"
            /\ UNCHANGED loop
       ELSE /\ pc' = "metadata_submit"
            /\ loop' = 2
            /\ UNCHANGED exc
    /\ UNCHANGED <<parser, outDir, tablePath, tableFile, table, mfutures, metadata, tasks, fs>>

\* one turn of `for row in table[1:-1]`, or its end
download_all_metadata_submit ==
    /\ pc = "metadata_submit"
    /\ LET link_index == Index(table[1], LINK_HEADER)
           project_title_index == Index(table[1], TITLE_HEADER)
       IN  IF loop > LastProjectRow(table)
           THEN /\ pc' = "metadata_exit"
                /\ UNCHANGED <<exc, loop, mfutures>>
           ELSE IF Len(table[loop]) < link_index \/ Len(table[loop]) < project_title_index
           THEN /\ pc' = "metadata_exit"
                /\ exc' = "IndexError: row"
                /\ UNCHANGED <<loop, mfutures>>
           ELSE /\ mfutures' = Append(mfutures,
                        [link |-> table[loop][link_index],
                         project_title |-> table[loop][project_title_index],
                         st |-> "pending", object_links |-> <<>>])
                /\ loop' = loop + 1
                /\ UNCHANGED <<pc, exc>>
    /\ UNCHANGED <<parser, outDir, tablePath, tableFile, table, metadata, tasks, fs>>

\* a worker runs download_obex_object_metadata(link, project_title)
download_obex_object_metadata(k) ==
    /\ k \in 1..Len(mfutures)
    /\ mfutures[k].st = "pending"
    /\ \E ok \in BOOLEAN :
          IF ok
          THEN mfutures' = [mfutures EXCEPT ![k].st = "ok",
                                            ![k].object_links = PageArtifacts(mfutures[k].link)]
          ELSE mfutures' = [mfutures EXCEPT ![k].st = "raised"]
    /\ UNCHANGED <<parser, pc, exc, outDir, tablePath, tableFile, table, loop, metadata, tasks, fs>>

\* the end of the with block
download_all_metadata_exit ==
    /\ pc = "metadata_exit"
    /\ MetadataJoined(mfutures)
    /\ pc' = IF exc = "none" THEN "metadata_results" ELSE "aborted"
    /\ UNCHANGED <<parser, exc, outDir, tablePath, tableFile, table, loop, mfutures, metadata, tasks, fs>>

\* `results = [future.result() for future in futures]; return dict(results)`
download_all_metadata_results ==
    /\ pc = "metadata_results"
    /\ MetadataJoined(mfutures)
    /\ IF \E k \in 1..Len(mfutures) : mfutures[k].st = "raised"
       THEN /\ pc' = "aborted"
            /\ exc' = "HTTPError"
            /\ UNCHANGED metadata
       ELSE /\ pc' = "download_all_objects"
            /\ metadata' = DictOf([k \in 1..Len(mfutures) |->
                                     <<mfutures[k].project_title, mfutures[k].object_links>>])
            /\ UNCHANGED exc
    /\ UNCHANGED <<parser, outDir, tablePath, tableFile, table, loop, mfutures, tasks, fs>>

(* ------------------------------------------------------------------ *)
(* download_all_objects                                                 *)
(* ------------------------------------------------------------------ *)
\* os.makedirs(obex_dir, exist_ok=True)
exist_ok_true == TRUE

\* os.makedirs(obex_dir, exist_ok=False)
exist_ok == FALSE

\* shutdown(wait=False)
ObjectsJoined_nowait(futures) == TRUE

\* the with block of download_all_objects ends with shutdown(wait=True), also
\* when an exception leaves it
ObjectsJoined(futures) == \A k \in 1..Len(futures) : Finished(futures[k])

download_all_objects_makedirs ==
    /\ pc = "download_all_objects"
    /\ IF outDir # "absent" /\ ~ exist_ok
       THEN /\ pc' = "aborted"
            /\ exc' = "FileExistsError"
            /\ UNCHANGED <<outDir, loop>>
       ELSE /\ pc' = "objects_submit"
            /\ outDir' = IF outDir = "absent" THEN "created" ELSE outDir
            /\ loop' = 1
            /\ UNCHANGED exc
    /\ UNCHANGED <<parser, tablePath, tableFile, table, mfutures, metadata, tasks, fs>>

\* one turn of `for project_title, project_artifacts in metadata.items()`:
\* os.makedirs(project_dir) and executor.submit(download_object, ...)
download_all_objects_submit ==
    /\ pc = "objects_submit"
    /\ IF loop > Len(metadata)
       THEN /\ pc' = "objects_results"
            /\ UNCHANGED <<exc, loop, tasks, fs>>
       ELSE LET project_dir == project_dir_name(metadata[loop][1]) IN
            IF project_dir \in DOMAIN fs
            THEN /\ pc' = "objects_exit"
                 /\ exc' = "FileExistsError"
                 /\ UNCHANGED <<loop, tasks, fs>>
            ELSE /\ fs' = [d \in (DOMAIN fs) \cup {project_dir} |->
                             IF d = project_dir THEN NoFiles ELSE fs[d]]
                 /\ tasks' = Append(tasks, NewTask(project_dir, metadata[loop][2]))
                 /\ loop' = loop + 1
                 /\ UNCHANGED <<pc, exc>>
    /\ UNCHANGED <<parser, outDir, tablePath, tableFile, table, mfutures, metadata>>

\* `[future.result() for future in futures]`: the futures are awaited in submit
\* order and the first one that raised re-raises in the main thread
download_all_objects_results ==
    /\ pc = "objects_results"
    /\ \/ /\ \A k \in 1..Len(tasks) : Finished(tasks[k])
          /\ \A k \in 1..Len(tasks) : tasks[k].pc = "returned"
          /\ UNCHANGED exc
       \/ /\ \E k \in 1..Len(tasks) :
                /\ tasks[k].pc = "raised"
                /\ \A j \in 1..(k - 1) : tasks[j].pc = "returned"
          /\ exc' = "ValueError: unpack"
    /\ pc' = "objects_exit"
    /\ UNCHANGED <<parser, outDir, tablePath, tableFile, table, loop, mfutures, metadata, tasks, fs>>

\* the end of the with block; then run prints 'All done!'
download_all_objects_exit ==
    /\ pc = "objects_exit"
    /\ ObjectsJoined(tasks)
    /\ pc' = IF exc = "none" THEN "done" ELSE "aborted"
    /\ UNCHANGED <<parser, exc, outDir, tablePath, tableFile, table, loop, mfutures, metadata, tasks, fs>>

(* ------------------------------------------------------------------ *)
(* A lone project task: download_object(directory, artifacts)           *)
(* ------------------------------------------------------------------ *)
InitTask ==
    /\ parser = NoParser
    /\ pc = "objects_exit"
    /\ exc = "none"
    /\ outDir = "created"
    /\ tablePath = FALSE
    /\ tableFile = "absent"
    /\ table = <<>>
    /\ loop = 1
    /\ mfutures = <<>>
    /\ \E artifacts \in SeqsUpTo(Candidates, MaxArtifacts) :
          /\ metadata = << <<T_C, artifacts>> >>
          /\ tasks = << NewTask(project_dir_name(T_C), artifacts) >>
    /\ fs = [d \in {project_dir_name(T_C)} |-> NoFiles]

NextTask ==
    \/ \E k \in 1..Len(tasks) : download_object_for(k)
    \/ \E k \in 1..Len(tasks) : download_object_urlopen(k)
    \/ \E k \in 1..Len(tasks) : download_object_while(k)
    \/ \E k \in 1..Len(tasks) : download_object_extract(k)

SpecTask == InitTask /\ [][NextTask]_vars

\* a thread that can run does run
FairSpecTask == SpecTask /\ WF_vars(NextTask)

(* ------------------------------------------------------------------ *)
(* The mirror operation alone: download_all_objects(metadata, obex_dir) *)
(* ------------------------------------------------------------------ *)
CatalogItems ==
    {<<T_AsB, <<A_a, A_r>>>>, <<T_AuB, <<A_k>>>>, <<T_C, <<A_n>>>>, <<T_C, <<A_x, A_k>>>>,
     <<T_D, <<A_e, A_r>>>>, <<T_D, <<A_w, A_k>>>>}

\* dicts: no key twice
Catalogs ==
    {c \in SeqsUpTo(CatalogItems, MaxProjects) :
        \A j, k \in 1..Len(c) : j # k => c[j][1] # c[k][1]}

InitMirror ==
    /\ parser = NoParser
    /\ pc = "download_all_objects"
    /\ exc = "none"
    /\ outDir \in {"absent", "preexisting"}
    /\ tablePath = FALSE
    /\ tableFile = "absent"
    /\ table = <<>>
    /\ loop = 1
    /\ mfutures = <<>>
    /\ metadata \in Catalogs
    /\ tasks = <<>>
    /\ fs = [d \in {} |-> NoFiles]

NextMirror ==
    \/ download_all_objects_makedirs
    \/ download_all_objects_submit
    \/ download_all_objects_results
    \/ download_all_objects_exit
    \/ NextTask

SpecMirror == InitMirror /\ [][NextMirror]_vars

(* ------------------------------------------------------------------ *)
(* obexlistparser.py: download_all_objects with one task per attachment *)
(* ------------------------------------------------------------------ *)
\* a future of download_object(directory, url, name), not yet started
NewArtifactTask(dir, artifact) == [NewTask(dir, <<artifact>>) EXCEPT !.pc = "queued"]

\* `os.makedirs(obex_dir, exist_ok=False)`; loop is <<project, artifact>>,
\* with artifact 0 before the project's directory is made
listparser_download_all_objects_makedirs ==
    /\ pc = "download_all_objects"
    /\ IF outDir # "absent" /\ ~ exist_ok
       THEN /\ pc' = "aborted"
            /\ exc' = "FileExistsError"
            /\ UNCHANGED <<outDir, loop>>
       ELSE /\ pc' = "objects_submit"
            /\ outDir' = IF outDir = "absent" THEN "created" ELSE outDir
            /\ loop' = <<1, 0>>
            /\ UNCHANGED exc
    /\ UNCHANGED <<parser, tablePath, tableFile, table, mfutures, metadata, tasks, fs>>

\* the head of `for project_title, project_artifacts in metadata.items()`
\* and os.makedirs(project_dir)
listparser_download_all_objects_project ==
    /\ pc = "objects_submit"
    /\ loop[2] = 0
    /\ IF loop[1] > Len(metadata)
       THEN /\ pc' = "objects_results"
            /\ UNCHANGED <<exc, loop, fs>>
       ELSE LET project_dir == project_dir_name(metadata[loop[1]][1]) IN
            IF project_dir \in DOMAIN fs
            THEN /\ pc' = "objects_exit"
                 /\ exc' = "FileExistsError"
                 /\ UNCHANGED <<loop, fs>>
            ELSE /\ fs' = [d \in (DOMAIN fs) \cup {project_dir} |->
                             IF d = project_dir THEN NoFiles ELSE fs[d]]
                 /\ loop' = <<loop[1], 1>>
                 /\ UNCHANGED <<pc, exc>>
    /\ UNCHANGED <<parser, outDir, tablePath, tableFile, table, mfutures, metadata, tasks>>

\* one turn of `for artifact in project_artifacts`, or its end:
\* executor.submit(download_object, project_dir, artifact[0], artifact[1])
listparser_download_all_objects_submit ==
    /\ pc = "objects_submit"
    /\ loop[2] >= 1
    /\ LET project_dir == project_dir_name(metadata[loop[1]][1])
           project_artifacts == metadata[loop[1]][2]
       IN  IF loop[2] > Len(project_artifacts)
           THEN /\ loop' = <<loop[1] + 1, 0>>
                /\ UNCHANGED <<pc, exc, tasks>>
           ELSE IF Len(project_artifacts[loop[2]]) < 2
           THEN /\ pc' = "objects_exit"
                /\ exc' = "IndexError: artifact"
                /\ UNCHANGED <<loop, tasks>>
           ELSE /\ tasks' = Append(tasks, NewArtifactTask(project_dir, project_artifacts[loop[2]]))
                /\ loop' = <<loop[1], loop[2] + 1>>
                /\ UNCHANGED <<pc, exc>>
    /\ UNCHANGED <<parser, outDir, tablePath, tableFile, table, mfutures, metadata, fs>>

\* `with open(os.path.join(directory, name), 'wb') as output`, which raises
\* IsADirectoryError on a path that is a directory
listparser_download_object_open(k) ==
    LET t == tasks[k] IN
    /\ k \in 1..Len(tasks)
    /\ t.pc = "queued"
    /\ IF IsDirectory(fs[t.dir], t.artifacts[1][2])
       THEN /\ tasks' = [tasks EXCEPT ![k].results[1] = "oserror", ![k].pc = "raised"]
            /\ UNCHANGED fs
       ELSE /\ fs' = [fs EXCEPT ![t.dir] = WriteFile(@, t.artifacts[1][2], "empty")]
            /\ tasks' = [tasks EXCEPT ![k].pc = "writing"]
    /\ UNCHANGED <<parser, pc, exc, outDir, tablePath, tableFile, table, loop, mfutures, metadata>>

\* `with urllib.request.urlopen(url) as response: output.write(response.read())`
\* with no try around it
listparser_download_object_write(k) ==
    LET t == tasks[k] IN
    /\ k \in 1..Len(tasks)
    /\ t.pc = "writing"
    /\ \E ok \in BOOLEAN :
          IF ok
          THEN /\ fs' = [fs EXCEPT ![t.dir] =
                            WriteFile(@, t.artifacts[1][2], UrlContent(t.artifacts[1][1]))]
               /\ tasks' = [tasks EXCEPT ![k].requests[1] = @ + 1,
                                         ![k].results[1] = "done",
                                         ![k].pc = "returned"]
          ELSE /\ tasks' = [tasks EXCEPT ![k].requests[1] = @ + 1,
                                         ![k].results[1] = "urlerror",
                                         ![k].pc = "raised"]
               /\ UNCHANGED fs
    /\ UNCHANGED <<parser, pc, exc, outDir, tablePath, tableFile, table, loop, mfutures, metadata>>

\* `[future.result() for future in futures]`
listparser_download_all_objects_results ==
    /\ pc = "objects_results"
    /\ \/ /\ \A k \in 1..Len(tasks) : tasks[k].pc = "returned"
          /\ UNCHANGED exc
       \/ /\ \E k \in 1..Len(tasks) :
                /\ tasks[k].pc = "raised"
                /\ \A j \in 1..(k - 1) : tasks[j].pc = "returned"
                /\ exc' = IF tasks[k].results[1] = "oserror"
                          THEN "IsADirectoryError" ELSE "URLError"
    /\ pc' = "objects_exit"
    /\ UNCHANGED <<parser, outDir, tablePath, tableFile, table, loop, mfutures, metadata, tasks, fs>>

NextListparserMirror ==
    \/ listparser_download_all_objects_makedirs
    \/ listparser_download_all_objects_project
    \/ listparser_download_all_objects_submit
    \/ \E k \in 1..Len(tasks) : listparser_download_object_open(k)
    \/ \E k \in 1..Len(tasks) : listparser_download_object_write(k)
    \/ listparser_download_all_objects_results
    \/ download_all_objects_exit

SpecListparserMirror == InitMirror /\ [][NextListparserMirror]_vars

(* ------------------------------------------------------------------ *)
(* obexlistparser.py: the whole run                                     *)
(* ------------------------------------------------------------------ *)
\* `'http://obex.parallax.com' + unescape(attribute_dict['href'])`
WithHost(candidate) == << <<OBEX_HOST>> \o candidate[1] >> \o Tail(candidate)

\* the detail page behind a listing link, as the ObexObjectParser of
\* obexlistparser.py returns it
ListparserPageArtifacts(link) ==
    [j \in 1..Len(PageArtifacts(link)) |-> WithHost(PageArtifacts(link)[j])]

\* run has no check of the output directory and the table file is always
\* written
InitListparser ==
    /\ parser = NoParser
    /\ pc = "run"
    /\ exc = "none"
    /\ outDir \in {"absent", "preexisting"}
    /\ tablePath = TRUE
    /\ tableFile = "absent"
    /\ table = <<>>
    /\ loop = 1
    /\ mfutures = <<>>
    /\ metadata = <<>>
    /\ tasks = <<>>
    /\ fs = [d \in {} |-> NoFiles]

\* parse_obex_listing(listingFile, table_file_path): the assert on the local
\* listing file, then the table file is opened and the parser fed
listparser_parse_obex_listing ==
    /\ pc = "run"
    /\ \/ /\ pc' = "aborted"
          /\ exc' = "AssertionError"
          /\ UNCHANGED <<table, tableFile>>
       \/ \E t \in Tables :
            /\ table' = t
            /\ tableFile' = SnapshotAfter(tablePath, TRUE)
            /\ pc' = "download_all_metadata"
            /\ UNCHANGED exc
       \/ /\ tableFile' = SnapshotAfter(tablePath, FALSE)
          /\ pc' = "aborted"
          /\ exc' = "ParseError"
          /\ UNCHANGED table
    /\ UNCHANGED <<parser, outDir, tablePath, loop, mfutures, metadata, tasks, fs>>

\* the rows `for row in table[1:]` visits: every row after the header, the
\* last one included
Listparser_LastProjectRow(t) == Len(t)

\* one turn of `for row in table[1:]`, or its end
listparser_download_all_metadata_submit ==
    /\ pc = "metadata_submit"
    /\ LET link_index == Index(table[1], LINK_HEADER)
           project_title_index == Index(table[1], TITLE_HEADER)
       IN  IF loop > Listparser_LastProjectRow(table)
           THEN /\ pc' = "metadata_exit"
                /\ UNCHANGED <<exc, loop, mfutures>>
           ELSE IF Len(table[loop]) < link_index \/ Len(table[loop]) < project_title_index
           THEN /\ pc' = "metadata_exit"
                /\ exc' = "IndexError: row"
                /\ UNCHANGED <<loop, mfutures>>
           ELSE /\ mfutures' = Append(mfutures,
                        [link |-> table[loop][link_index],
                         project_title |-> table[loop][project_title_index],
                         st |-> "pending", object_links |-> <<>>])
                /\ loop' = loop + 1
                /\ UNCHANGED <<pc, exc>>
    /\ UNCHANGED <<parser, outDir, tablePath, tableFile, table, metadata, tasks, fs>>

\* a worker runs download_obex_object_metadata(link, project_title)
listparser_download_obex_object_metadata(k) ==
    /\ k \in 1..Len(mfutures)
    /\ mfutures[k].st = "pending"
    /\ \E ok \in BOOLEAN :
          IF ok
          THEN mfutures' = [mfutures EXCEPT ![k].st = "ok",
                               ![k].object_links = ListparserPageArtifacts(mfutures[k].link)]
          ELSE mfutures' = [mfutures EXCEPT ![k].st = "raised"]
    /\ UNCHANGED <<parser, pc, exc, outDir, tablePath, tableFile, table, loop, metadata, tasks, fs>>

NextListparser ==
    \/ listparser_parse_obex_listing
    \/ download_all_metadata_index
    \/ listparser_download_all_metadata_submit
    \/ \E k \in 1..Len(mfutures) : listparser_download_obex_object_metadata(k)
    \/ download_all_metadata_exit
    \/ download_all_metadata_results
    \/ NextListparserMirror

SpecListparser == InitListparser /\ [][NextListparser]_vars

(* ------------------------------------------------------------------ *)
(* Text as the parsers see it: tuples of characters                    *)
(* ------------------------------------------------------------------ *)
\* a Python str literal of one word
Str(w) == <<w>>

IsSpace(c) == c \in {" ", "\n"}

\* str.strip()
RECURSIVE strip(_)
strip(s) ==
    IF s = <<>> THEN s
    ELSE IF IsSpace(s[1]) THEN strip(Tail(s))
    ELSE IF IsSpace(s[Len(s)]) THEN strip(SubSeq(s, 1, Len(s) - 1))
    ELSE s

\* str.split(): the runs of characters that are not whitespace
RECURSIVE split(_)
split(s) ==
    IF s = <<>> THEN <<>>
    ELSE IF IsSpace(s[1]) THEN split(Tail(s))
    ELSE LET stops == {k \in 1..Len(s) : IsSpace(s[k])}
             n == IF stops = {} THEN Len(s) + 1
                  ELSE CHOOSE k \in stops : \A j \in stops : k <= j
         IN  <<SubSeq(s, 1, n - 1)>> \o split(SubSeq(s, n, Len(s)))

\* sep.join(words)
RECURSIVE join(_, _)
join(sep, words) ==
    IF words = <<>> THEN <<>>
    ELSE IF Len(words) = 1 THEN words[1]
    ELSE words[1] \o sep \o join(sep, Tail(words))

\* html.parser.unescape: a character reference becomes its character
unescapeChar(c) ==
    CASE c = "&amp;" -> "&"
      [] c = "&lt;" -> "<"
      [] OTHER -> c

unescape(s) == [k \in 1..Len(s) |-> unescapeChar(s[k])]

\* dict(attrs): the keys, and the value of a key (its last pair wins)
HasKey(attrs, key) == \E k \in 1..Len(attrs) : attrs[k][1] = key

DictGet(attrs, key) ==
    LET at == {k \in 1..Len(attrs) : attrs[k][1] = key}
    IN  attrs[CHOOSE k \in at : \A j \in at : j <= k][2]

(* ------------------------------------------------------------------ *)
(* ObexListParser                                                       *)
(* ------------------------------------------------------------------ *)
\* ObexListParser.__init__; _currentRow None is rowIsNone with no cells
ObexListParser_init ==
    [inHeader |-> FALSE, inCell |-> FALSE, table |-> <<>>,
     currentRow |-> <<>>, rowIsNone |-> TRUE, raised |-> "none"]

\* `if self._currentRow`: neither None nor []
Truthy(self) == ~ self.rowIsNone /\ self.currentRow # <<>>

\* self._currentRow.append(cell)
RowAppend(self, cell) ==
    IF self.rowIsNone
    THEN [self EXCEPT !.raised = "AttributeError"]
    ELSE [self EXCEPT !.currentRow = Append(@, cell)]

ObexListParser_handle_endtag(self, tag) ==
    IF tag = "tr"
    THEN IF Truthy(self)
         THEN [self EXCEPT !.table = Append(@, self.currentRow),
                           !.currentRow = <<>>, !.rowIsNone = TRUE]
         ELSE self
    ELSE IF tag = "td" THEN [self EXCEPT !.inCell = FALSE]
    ELSE IF tag = "th" THEN [self EXCEPT !.inHeader = FALSE]
    ELSE self

ObexListParser_handle_data(self, data) ==
    IF self.inCell
    THEN LET content == join(<<" ">>, split(strip(data)))
         IN  IF content # <<>> THEN RowAppend(self, content) ELSE self
    ELSE self

\* `elif tag == 'a' and self._inCell and not self._inHeader`
AnchorCounts(self) == self.inCell /\ ~ self.inHeader

\* the anchor branch of handle_starttag
AppendLink(self, attrs) ==
    IF ~ HasKey(attrs, "href")
    THEN [self EXCEPT !.raised = "KeyError"]
    ELSE RowAppend(self, unescape(DictGet(attrs, "href")))

ObexListParser_handle_starttag(self, tag, attrs) ==
    LET cell == IF tag \in {"td", "th"}
                THEN [self EXCEPT !.inHeader = (tag = "th") \/ @, !.inCell = TRUE]
                ELSE self
    IN  IF tag = "tr"
        THEN [cell EXCEPT !.currentRow = IF cell.table = <<>> THEN <<Str(LINK_HEADER)>>
                                         ELSE <<>>,
                          !.rowIsNone = FALSE]
        ELSE IF tag = "a" /\ AnchorCounts(cell) THEN AppendLink(cell, attrs)
        ELSE cell

(* ------------------------------------------------------------------ *)
(* obexlistparser.py: ObexListParser without the header flag            *)
(* ------------------------------------------------------------------ *)
Listparser_handle_endtag(self, tag) ==
    IF tag = "tr"
    THEN IF Truthy(self)
         THEN [self EXCEPT !.table = Append(@, self.currentRow),
                           !.currentRow = <<>>, !.rowIsNone = TRUE]
         ELSE self
    ELSE IF tag = "td" THEN [self EXCEPT !.inCell = FALSE]
    ELSE self

Listparser_handle_starttag(self, tag, attrs) ==
    LET cell == IF tag = "td" THEN [self EXCEPT !.inCell = TRUE] ELSE self
    IN  IF tag = "tr"
        THEN [cell EXCEPT !.currentRow = IF cell.table = <<>> THEN <<Str(LINK_HEADER)>>
                                         ELSE <<>>,
                          !.rowIsNone = FALSE]
        ELSE IF tag = "a" /\ cell.inCell THEN AppendLink(cell, attrs)
        ELSE cell

(* ------------------------------------------------------------------ *)
(* HTMLParser.feed: the parse events of a document, handled in turn     *)
(* ------------------------------------------------------------------ *)
StartTag(tag, attrs) == [kind |-> "starttag", tag |-> tag, attrs |-> attrs, data |-> <<>>]
EndTag(tag) == [kind |-> "endtag", tag |-> tag, attrs |-> <<>>, data |-> <<>>]
Data(data) == [kind |-> "data", tag |-> "", attrs |-> <<>>, data |-> data]
NoEvent == [kind |-> "none", tag |-> "", attrs |-> <<>>, data |-> <<>>]

H_1 == <<"/", "p", "&amp;", "1">>

\* the attributes of a start-tag: none, or an href
AttrChoices(tag) == IF tag = "a" THEN {<<>>, << <<"href", H_1>> >>} ELSE {<<>>}

ListTags == {"tr", "td", "th", "a"}

\* text nodes: whitespace only, a word, two words with a line break between
ListTexts == {<<" ", "\n">>, <<" ", "x">>, <<"x", " ", "\n", "y">>}

\* a th start-tag has been handled and no th end-tag since
HeaderOpenAfter(open, ev) ==
    IF ev.tag = "th" THEN ev.kind = "starttag" ELSE open

FeedingTo(class) ==
    /\ parser.class = class
    /\ parser.self.raised = "none"
    /\ parser.fed < MaxEvents

Handled(ev, self) ==
    /\ parser' = [parser EXCEPT !.self = self, !.last = ev, !.fed = @ + 1,
                                !.headerOpen = HeaderOpenAfter(@, ev)]
    /\ UNCHANGED <<pc, exc, outDir, tablePath, tableFile, table, loop, mfutures,
                   metadata, tasks, fs>>

ParserFedBy(class, self) ==
    [class |-> class, self |-> self, last |-> NoEvent, headerOpen |-> FALSE, fed |-> 0]

\* no run around the parser
NoRun ==
    /\ pc = "done"
    /\ exc = "none"
    /\ outDir = "absent"
    /\ tablePath = FALSE
    /\ tableFile = "absent"
    /\ table = <<>>
    /\ loop = 1
    /\ mfutures = <<>>
    /\ metadata = <<>>
    /\ tasks = <<>>
    /\ fs = [d \in {} |-> NoFiles]

InitParser(class, self) == parser = ParserFedBy(class, self) /\ NoRun

ObexListParser_starttag ==
    /\ FeedingTo("ObexListParser")
    /\ \E tag \in ListTags : \E attrs \in AttrChoices(tag) :
          Handled(StartTag(tag, attrs), ObexListParser_handle_starttag(parser.self, tag, attrs))

ObexListParser_endtag ==
    /\ FeedingTo("ObexListParser")
    /\ \E tag \in ListTags :
          Handled(EndTag(tag), ObexListParser_handle_endtag(parser.self, tag))

ObexListParser_data ==
    /\ FeedingTo("ObexListParser")
    /\ \E data \in ListTexts :
          Handled(Data(data), ObexListParser_handle_data(parser.self, data))

NextListParser ==
    \/ ObexListParser_starttag
    \/ ObexListParser_endtag
    \/ ObexListParser_data

SpecListParser ==
    InitParser("ObexListParser", ObexListParser_init) /\ [][NextListParser]_vars

Listparser_starttag ==
    /\ FeedingTo("obexlistparser.ObexListParser")
    /\ \E tag \in ListTags : \E attrs \in AttrChoices(tag) :
          Handled(StartTag(tag, attrs), Listparser_handle_starttag(parser.self, tag, attrs))

Listparser_endtag ==
    /\ FeedingTo("obexlistparser.ObexListParser")
    /\ \E tag \in ListTags :
          Handled(EndTag(tag), Listparser_handle_endtag(parser.self, tag))

Listparser_data ==
    /\ FeedingTo("obexlistparser.ObexListParser")
    /\ \E data \in ListTexts :
          Handled(Data(data), ObexListParser_handle_data(parser.self, data))

NextListparserParser ==
    \/ Listparser_starttag
    \/ Listparser_endtag
    \/ Listparser_data

SpecListparserParser ==
    InitParser("obexlistparser.ObexListParser", ObexListParser_init)
        /\ [][NextListparserParser]_vars

(* ------------------------------------------------------------------ *)
(* ObexObjectParser                                                     *)
(* ------------------------------------------------------------------ *)
ObexObjectParser_init ==
    [getReady |-> FALSE, wereAlmostThere |-> FALSE, weMadeIt |-> FALSE,
     links |-> <<>>, raised |-> "none"]

\* leaving the anchor forgets the label
AfterAnchor(self) == [self EXCEPT !.weMadeIt = FALSE, !.wereAlmostThere = FALSE]

ObexObjectParser_handle_endtag(self, tag) ==
    IF self.weMadeIt /\ tag = "a" THEN AfterAnchor(self) ELSE self

\* self._links[-1].append(' '.join(stripped_data.split()))
NameAppended(links, stripped_data) ==
    [links EXCEPT ![Len(links)] = Append(@, join(<<" ">>, split(stripped_data)))]

ObexObjectParser_handle_data(self, data) ==
    LET stripped_data == strip(data)
        label == IF self.getReady /\ stripped_data = Str("Attachment")
                 THEN [self EXCEPT !.wereAlmostThere = TRUE]
                 ELSE self
    IN  IF label.weMadeIt
        THEN [label EXCEPT !.links = NameAppended(@, stripped_data)]
        ELSE label

\* `self._weMadeIt = True`, and the label flag stays as it is
OnAnchor(self) == [self EXCEPT !.weMadeIt = TRUE]

ObexObjectParser_handle_starttag(self, tag, attrs) ==
    IF tag = "th" THEN [self EXCEPT !.getReady = TRUE]
    ELSE IF tag = "a" /\ self.wereAlmostThere
    THEN IF ~ HasKey(attrs, "href")
         THEN [OnAnchor(self) EXCEPT !.raised = "KeyError"]
         ELSE [OnAnchor(self) EXCEPT !.links =
                  Append(@, <<unescape(DictGet(attrs, "href"))>>)]
    ELSE self

ObjectTags == {"th", "a", "p"}

\* text nodes: the label, whitespace only, a name of two words
ObjectTexts == {<<"\n", "Attachment", " ">>, <<" ">>, <<"n", " ", " ", "m">>}

\* the text is an 'Attachment' label
IsLabel(data) == strip(data) = Str("Attachment")

\* a label has been seen after the first th start-tag and no anchor
\* start-tag since
ArmedAfter(armed, thSeen, ev) ==
    IF ev.kind = "data" /\ IsLabel(ev.data) /\ thSeen THEN TRUE
    ELSE IF ev.kind = "starttag" /\ ev.tag = "a" THEN FALSE
    ELSE armed

ObjectParserFed ==
    [class |-> "ObexObjectParser", self |-> ObexObjectParser_init, last |-> NoEvent,
     headerOpen |-> FALSE, fed |-> 0, thSeen |-> FALSE, armed |-> FALSE]

InitObjectParser == parser = ObjectParserFed /\ NoRun

HandledByObjectParser(ev, self) ==
    /\ parser' = [parser EXCEPT !.self = self, !.last = ev, !.fed = @ + 1,
                                !.thSeen = @ \/ (ev.kind = "starttag" /\ ev.tag = "th"),
                                !.armed = ArmedAfter(@, parser.thSeen, ev)]
    /\ UNCHANGED <<pc, exc, outDir, tablePath, tableFile, table, loop, mfutures,
                   metadata, tasks, fs>>

ObexObjectParser_starttag ==
    /\ FeedingTo("ObexObjectParser")
    /\ \E tag \in ObjectTags : \E attrs \in AttrChoices(tag) :
          HandledByObjectParser(StartTag(tag, attrs),
                                ObexObjectParser_handle_starttag(parser.self, tag, attrs))

ObexObjectParser_endtag ==
    /\ FeedingTo("ObexObjectParser")
    /\ \E tag \in ObjectTags :
          HandledByObjectParser(EndTag(tag), ObexObjectParser_handle_endtag(parser.self, tag))

ObexObjectParser_data ==
    /\ FeedingTo("ObexObjectParser")
    /\ \E data \in ObjectTexts :
          HandledByObjectParser(Data(data), ObexObjectParser_handle_data(parser.self, data))

NextObjectParser ==
    \/ ObexObjectParser_starttag
    \/ ObexObjectParser_endtag
    \/ ObexObjectParser_data

SpecObjectParser == InitObjectParser /\ [][NextObjectParser]_vars

(* ------------------------------------------------------------------ *)
(* obexlistparser.py: ObexObjectParser, which puts the host before hrefs *)
(* ------------------------------------------------------------------ *)
Listparser_ObexObjectParser_handle_starttag(self, tag, attrs) ==
    IF tag = "th" THEN [self EXCEPT !.getReady = TRUE]
    ELSE IF tag = "a" /\ self.wereAlmostThere
    THEN IF ~ HasKey(attrs, "href")
         THEN [OnAnchor(self) EXCEPT !.raised = "KeyError"]
         ELSE [OnAnchor(self) EXCEPT !.links =
                  Append(@, << <<OBEX_HOST>> \o unescape(DictGet(attrs, "href")) >>)]
    ELSE self

Listparser_ObexObjectParser_starttag ==
    /\ FeedingTo("obexlistparser.ObexObjectParser")
    /\ \E tag \in ObjectTags : \E attrs \in AttrChoices(tag) :
          HandledByObjectParser(StartTag(tag, attrs),
              Listparser_ObexObjectParser_handle_starttag(parser.self, tag, attrs))

Listparser_ObexObjectParser_endtag ==
    /\ FeedingTo("obexlistparser.ObexObjectParser")
    /\ \E tag \in ObjectTags :
          HandledByObjectParser(EndTag(tag), ObexObjectParser_handle_endtag(parser.self, tag))

Listparser_ObexObjectParser_data ==
    /\ FeedingTo("obexlistparser.ObexObjectParser")
    /\ \E data \in ObjectTexts :
          HandledByObjectParser(Data(data), ObexObjectParser_handle_data(parser.self, data))

NextListparserObjectParser ==
    \/ Listparser_ObexObjectParser_starttag
    \/ Listparser_ObexObjectParser_endtag
    \/ Listparser_ObexObjectParser_data

SpecListparserObjectParser ==
    /\ parser = [ObjectParserFed EXCEPT !.class = "obexlistparser.ObexObjectParser"]
    /\ NoRun
    /\ [][NextListparserObjectParser]_vars

(* ------------------------------------------------------------------ *)
(* The whole run                                                        *)
(* ------------------------------------------------------------------ *)
Init ==
    /\ parser = NoParser
    /\ pc = "run"
    /\ exc = "none"
    /\ outDir \in {"absent", "preexisting"}
    /\ tablePath \in BOOLEAN
    /\ tableFile = "absent"
    /\ table = <<>>
    /\ loop = 1
    /\ mfutures = <<>>
    /\ metadata = <<>>
    /\ tasks = <<>>
    /\ fs = [d \in {} |-> NoFiles]

Next ==
    \/ run_check
    \/ get_obex_listing
    \/ parse_obex_listing
    \/ download_all_metadata_index
    \/ download_all_metadata_submit
    \/ \E k \in 1..Len(mfutures) : download_obex_object_metadata(k)
    \/ download_all_metadata_exit
    \/ download_all_metadata_results
    \/ NextMirror

Spec == Init /\ [][Next]_vars

(* ------------------------------------------------------------------ *)
(* Properties                                                           *)
(* ------------------------------------------------------------------ *)
\* the number of rows `table[1:-1]` holds
ProjectRows(t) == IF Len(t) >= 2 THEN Len(t) - 2 ELSE 0

\* the main thread has left download_all_metadata
FetchOver ==
    pc \in {"download_all_objects", "objects_submit", "objects_results",
            "objects_exit", "done", "aborted"}

RaisedFetches == {k \in 1..Len(mfutures) : mfutures[k].st = "raised"}

\* the catalog of the projects whose detail page was fetched
CatalogOfFetched ==
    LET ok == SelectSeq(mfutures, LAMBDA f : f.st = "ok")
    IN  DictOf([k \in 1..Len(ok) |-> <<ok[k].project_title, ok[k].object_links>>])

\* the detail-page fetch of exactly one of several projects failed, and
\* nothing else went wrong in the fetch
OneFetchFailed ==
    /\ Len(mfutures) >= 2
    /\ Len(mfutures) = ProjectRows(table)
    /\ \A j, k \in 1..Len(mfutures) :
          j # k => mfutures[j].project_title # mfutures[k].project_title
    /\ MetadataJoined(mfutures)
    /\ Cardinality(RaisedFetches) = 1
    /\ exc \in {"none", "HTTPError"}

\* C1: when the detail-page fetch fails for exactly one of several projects,
\* download_all_metadata still returns the mapping of all the other projects
\* and the run does not abort.
C1_OneFailedFetchIsSkipped ==
    (FetchOver /\ OneFetchFailed) =>
        /\ exc = "none"
        /\ pc # "aborted"
        /\ metadata = CatalogOfFetched

\* every candidate of the task is a (url, name) pair
WellFormed(artifacts) == \A j \in 1..Len(artifacts) : Len(artifacts[j]) = 2

\* the download of attachment j of task t has finished, successfully or not
Downloaded(t, j) == t.requests[j] >= 1 \/ t.results[j] = "oserror"

\* extract has been called in task t
ExpansionBegun(t) == DOMAIN t.calls # {}

\* C2: within one project task the attachments are downloaded in their listed
\* order, and no archive of the project is expanded before every attachment
\* of the project has finished downloading.
C2_DownloadsBeforeExpansion ==
    \A k \in 1..Len(tasks) :
        LET t == tasks[k] IN
        WellFormed(t.artifacts) =>
            /\ \A j \in 1..Len(t.artifacts) :
                  Downloaded(t, j) => \A h \in 1..(j - 1) : Downloaded(t, h)
            /\ ExpansionBegun(t) => \A j \in 1..Len(t.artifacts) : Downloaded(t, j)

\* C3: over a whole project task no archive path is passed to extract more
\* than once.
C3_ExtractedOnce ==
    \A k \in 1..Len(tasks) :
        \A z \in DOMAIN tasks[k].calls : tasks[k].calls[z] <= 1

\* the archive and every archive nested in it can be read
RECURSIVE CleanContent(_)
CleanContent(content) ==
    /\ is_zipfile(content)
    /\ \A m \in ZipContents[content] :
          EndsWith(Lower(m[1][Len(m[1])]), DotZip) => CleanContent(m[2])

\* no archive of the directory is corrupt, at any nesting depth
CleanDir(files) == \A z \in find_zips(files) : CleanContent(files[z])

\* task t is in the resolver loop of its attachment j
InResolver(t, j) == t.pc \in {"while", "extract"} /\ t.i = j

\* the resolver loop of attachment j of task t has ended by its test
ResolverEnded(t, j) == j \in 1..Len(t.results) /\ t.results[j] = "done"

\* task t stands right after a resolver loop that ended by its test
AfterResolver(t) ==
    /\ t.pc \in {"for", "returned", "raised"}
    /\ ResolverEnded(t, t.i - 1)

\* C4: on a directory without corrupt archives the resolver loop terminates,
\* and when it has terminated every .zip path a scan of the directory finds
\* is in the already-expanded set.
C4_ResolverTerminatesComplete ==
    /\ [](\A k \in 1..Len(tasks) :
            AfterResolver(tasks[k]) =>
                find_zips(fs[tasks[k].dir]) \subseteq tasks[k].extracted_zips)
    /\ \A j \in 1..(MaxArtifacts + 1) :
          (/\ Len(tasks) = 1
           /\ InResolver(tasks[1], j)
           /\ CleanDir(fs[tasks[1].dir]))
            ~> (Len(tasks) = 1 /\ ResolverEnded(tasks[1], j))

\* a resolver loop has ended after expanding an archive that only surfaced
\* when another archive was expanded
C4_Witness ==
    \E k \in 1..Len(tasks) :
        /\ AfterResolver(tasks[k])
        /\ \E z \in tasks[k].extracted_zips :
              /\ Len(z) > 1
              /\ z \in DOMAIN tasks[k].calls

\* the mirror operation has completed
MirrorOver == pc \in {"done", "aborted"}

\* no two projects of the catalog share a directory name
DistinctDirs ==
    \A j, k \in 1..Len(metadata) :
        j # k => project_dir_name(metadata[j][1]) # project_dir_name(metadata[k][1])

\* nothing can fail in the mirror but attachment downloads (and what they
\* leave behind): the output directory is fresh, every project gets its own
\* directory and every candidate is a (url, name) pair
OnlyDownloadsCanFail ==
    /\ outDir # "preexisting"
    /\ DistinctDirs
    /\ \A k \in 1..Len(metadata) : WellFormed(metadata[k][2])

\* every attachment of every project of the catalog is an attachment of the
\* project's task
TasksCoverCatalog ==
    /\ Len(tasks) = Len(metadata)
    /\ \A k \in 1..Len(tasks) : tasks[k].artifacts = metadata[k][2]

\* open() failed on the local file of attachment j of task t
OpenFailed(t, j) == t.results[j] = "oserror"

\* C5 as stated, for the runs in which the mirror returns normally: no
\* attachment is requested twice, and every attachment of every project of
\* the catalog has been requested exactly once, none skipped.
C5_EachAttachmentRequestedOnce_Any ==
    /\ \A k \in 1..Len(tasks) :
          \A j \in 1..Len(tasks[k].requests) : tasks[k].requests[j] <= 1
    /\ (pc = "done" /\ exc = "none") =>
          /\ TasksCoverCatalog
          /\ \A k \in 1..Len(tasks) :
                \A j \in 1..Len(tasks[k].artifacts) : tasks[k].requests[j] = 1

\* C5: no attachment is ever requested twice.  When the output directory is
\* fresh, no two projects share a directory name and every candidate is a
\* (url, name) pair, then whichever downloads fail, at the end of the mirror
\* every attachment of every project of the catalog has been requested
\* exactly once, except those whose local file could not be opened (the name
\* is empty or names a directory), which have not been requested at all; a
\* failed download or a failed open keeps no later attachment and no other
\* project from its request.
C5_EachAttachmentRequestedOnce ==
    /\ \A k \in 1..Len(tasks) :
          \A j \in 1..Len(tasks[k].requests) :
             /\ tasks[k].requests[j] <= 1
             /\ OpenFailed(tasks[k], j) => tasks[k].requests[j] = 0
    /\ (MirrorOver /\ OnlyDownloadsCanFail) =>
          /\ TasksCoverCatalog
          /\ \A k \in 1..Len(tasks) :
                \A j \in 1..Len(tasks[k].artifacts) :
                   /\ tasks[k].requests[j] = IF OpenFailed(tasks[k], j) THEN 0 ELSE 1
                   /\ tasks[k].artifacts[j][2] = <<>> => OpenFailed(tasks[k], j)
                   /\ OpenFailed(tasks[k], j) =>
                         IsDirectory(fs[tasks[k].dir], tasks[k].artifacts[j][2])

\* the mirror has completed; a download failed and the attachment listed
\* after it was requested; the local file of an attachment could not be
\* opened, it was not requested and the attachment listed after it was; and
\* these are attachments of two projects
C5_Witness ==
    /\ MirrorOver
    /\ OnlyDownloadsCanFail
    /\ \E k, h \in 1..Len(tasks) :
          /\ h # k
          /\ \E j \in 1..(Len(tasks[k].artifacts) - 1) :
                /\ tasks[k].results[j] = "urlerror"
                /\ tasks[k].requests[j] = 1
                /\ tasks[k].requests[j + 1] = 1
          /\ \E j \in 1..(Len(tasks[h].artifacts) - 1) :
                /\ OpenFailed(tasks[h], j)
                /\ tasks[h].requests[j] = 0
                /\ tasks[h].requests[j + 1] = 1

\* some attachment download of the run has failed
SomeDownloadFailed ==
    \E k \in 1..Len(tasks) :
        \E j \in 1..Len(tasks[k].results) : tasks[k].results[j] = "urlerror"

\* C6: when the only failures of the run are failures of attachment
\* downloads, download_all_objects returns normally.
C6_DownloadFailuresNotRaised ==
    (MirrorOver /\ OnlyDownloadsCanFail) => (pc = "done" /\ exc = "none")

\* the mirror has returned normally although a download failed
C6_Witness == pc = "done" /\ exc = "none" /\ SomeDownloadFailed

\* the output directory has been created or an attachment has been requested
MirrorBegun ==
    \/ outDir = "created"
    \/ DOMAIN fs # {}
    \/ tasks # <<>>

\* every detail-page task of the table has been dispatched and has completed,
\* and the mapping has been built from their results
DiscoveryComplete ==
    /\ table # <<>>
    /\ Len(mfutures) = ProjectRows(table)
    /\ \A k \in 1..Len(mfutures) : MetaFinished(mfutures[k])
    /\ metadata = CatalogOfFetched

\* C7: no output directory is created and no attachment download starts
\* before every detail-page fetch task has completed and the mapping has
\* been built.
C7_PhasesSequential == MirrorBegun => DiscoveryComplete

\* an attachment has been requested in a run that fetched two detail pages
C7_Witness ==
    /\ Len(mfutures) >= 2
    /\ \E k \in 1..Len(tasks) : \E j \in 1..Len(tasks[k].requests) : tasks[k].requests[j] = 1

\* C8: download_all_objects completes, normally or by raising, only after
\* every submitted project task has finished.
C8_MirrorJoinsAllTasks ==
    MirrorOver => \A k \in 1..Len(tasks) : Finished(tasks[k])

\* the mirror has raised after a task had been submitted, and that task has
\* downloaded
C8_Witness ==
    /\ pc = "aborted"
    /\ exc # "none"
    /\ \E k \in 1..Len(tasks) :
          /\ Finished(tasks[k])
          /\ \E j \in 1..Len(tasks[k].requests) : tasks[k].requests[j] = 1

\* C9: when the output directory exists as download_all_objects is called,
\* the operation fails and changes nothing: no project directory, no task,
\* no download.
C9_ExistingOutputRefused ==
    outDir = "preexisting" =>
        /\ pc \in {"download_all_objects", "aborted"}
        /\ pc = "aborted" => exc = "FileExistsError"
        /\ DOMAIN fs = {}
        /\ tasks = <<>>

\* the operation has failed on an existing output directory
C9_Witness == outDir = "preexisting" /\ pc = "aborted" /\ metadata # <<>>

\* the run has aborted because the output directory pre-exists, the listing
\* could not be fetched or parsed, or a column is missing
FatalAbort ==
    /\ pc = "aborted"
    /\ exc \in {"SystemExit", "URLError", "ParseError", "ValueError: not in list"}

\* C10: a run that aborts for one of the fatal reasons has written nothing:
\* neither the output directory tree nor the listing snapshot.
C10_FatalBeforeOutput ==
    FatalAbort => (outDir # "created" /\ DOMAIN fs = {} /\ tableFile = "absent")

\* a worker has started the task and has not finished it
Running(t) == t.pc \notin {"queued", "returned", "raised"}

\* C11: no two tasks that run at the same time write into the same project
\* directory: each project directory belongs to one task, also when two
\* titles normalize to the same directory name.
C11_OneTaskPerDirectory ==
    \A j, k \in 1..Len(tasks) :
        (j # k /\ Running(tasks[j]) /\ Running(tasks[k])) => tasks[j].dir # tasks[k].dir

\* table[0] names both columns
SchemaOk(t) ==
    /\ t # <<>>
    /\ Index(t[1], LINK_HEADER) # 0
    /\ Index(t[1], TITLE_HEADER) # 0

\* row r of the table lacks the link cell or the title cell
ShortRow(t, r) ==
    \/ Len(t[r]) < Index(t[1], LINK_HEADER)
    \/ Len(t[r]) < Index(t[1], TITLE_HEADER)

\* the positions of the rows between the header and the last row
InnerRows(t) == {r \in 1..Len(t) : 1 < r /\ r < Len(t)}

\* the inner rows that get a task: all of them up to the first short one
DispatchedRows(t) ==
    {r \in InnerRows(t) : \A q \in InnerRows(t) : q <= r => ~ ShortRow(t, q)}

\* the listing has been parsed and download_all_metadata has looked up the
\* columns
ColumnsLookedUp ==
    /\ pc \notin {"run", "get_obex_listing", "parse_obex_listing", "download_all_metadata"}
    /\ exc \notin {"SystemExit", "URLError", "ParseError"}

\* the submit loop of download_all_metadata has ended
SubmitOver == ColumnsLookedUp /\ pc # "metadata_submit"

\* task k fetches the detail page of row k + 1
TaskOfRow(t, k) ==
    /\ mfutures[k].link = t[k + 1][Index(t[1], LINK_HEADER)]
    /\ mfutures[k].project_title = t[k + 1][Index(t[1], TITLE_HEADER)]

\* C12 as stated: for a table of n rows there is exactly one detail-page task
\* for each row 1..n-2, none for the header and the last row, and for n <= 2
\* there is no task and an empty mapping is returned.
C12_OneTaskPerInnerRow_Any ==
    (ColumnsLookedUp /\ (table = <<>> \/ SchemaOk(table))) =>
        /\ SubmitOver => Len(mfutures) = ProjectRows(table)
        /\ \A k \in 1..Len(mfutures) : k + 1 \in InnerRows(table) /\ TaskOfRow(table, k)
        /\ Len(table) <= 2 => (mfutures = <<>> /\ metadata = <<>> /\ exc = "none")

\* C12: for a table of n >= 1 rows whose header names both columns there is
\* exactly one detail-page task for each row 1..n-2 in turn, up to the first
\* such row that lacks the link or the title cell, and none for the header and
\* the last row; for n = 1 and n = 2 there is no task and the mapping returned
\* is empty; for n = 0 download_all_metadata raises and returns nothing.
C12_OneTaskPerInnerRow ==
    /\ (ColumnsLookedUp /\ SchemaOk(table)) =>
          /\ \A k \in 1..Len(mfutures) : k + 1 \in DispatchedRows(table) /\ TaskOfRow(table, k)
          /\ SubmitOver => Len(mfutures) = Cardinality(DispatchedRows(table))
          /\ Len(table) <= 2 => (mfutures = <<>> /\ metadata = <<>> /\ exc = "none")
    /\ (ColumnsLookedUp /\ table = <<>>) =>
          (pc = "aborted" /\ exc = "IndexError: table[0]" /\ mfutures = <<>>)

\* a run over a table of four rows has fetched the pages of its two inner rows
C12_Witness ==
    /\ pc = "done"
    /\ Len(table) = 4
    /\ Len(mfutures) = 2
    /\ metadata # <<>>

\* the table feed returns when the document ends here
Returned(class) == parser.class = class /\ parser.self.raised = "none"

\* the hrefs an anchor of the document can carry, as they reach a row
Hrefs == {unescape(H_1)}

\* C13: in every table ObexListParser.feed returns, every data row has as
\* many cells as the header row, and its cell at the header's index of Link
\* is the href of the row's anchor, for any sequence of parse events.
C13_RowsMatchHeader ==
    Returned("ObexListParser") =>
        LET t == parser.self.table IN
        \A r \in 2..Len(t) :
            /\ Len(t[r]) = Len(t[1])
            /\ Index(t[1], Str(LINK_HEADER)) # 0
            /\ t[r][Index(t[1], Str(LINK_HEADER))] \in Hrefs

\* the event just handled appended a candidate
CandidateAppended == Len(parser'.self.links) > Len(parser.self.links)

\* C14: ObexObjectParser appends a candidate only for an anchor that follows
\* an 'Attachment' label seen after the first th start-tag, and one for each
\* such anchor: the label is consumed on entering the anchor, so one label
\* gives at most one candidate, and an anchor before the first th, before any
\* label or after a consumed label gives none.
C14_OneCandidatePerLabel ==
    [][/\ CandidateAppended => parser.armed
       /\ (parser.armed /\ parser'.last = StartTag("a", << <<"href", H_1>> >>))
             => CandidateAppended]_vars

\* the candidates whose anchor has been left
ClosedCandidates ==
    {k \in 1..Len(parser.self.links) : k < Len(parser.self.links) \/ ~ parser.self.weMadeIt}

\* C18: every candidate ObexObjectParser.feed returns has exactly two
\* elements, the url and the name, also for an anchor without text and for
\* an anchor with several text fragments.
C18_CandidatesArePairs ==
    Returned("ObexObjectParser") =>
        \A k \in ClosedCandidates : Len(parser.self.links[k]) = 2

Max(S) == CHOOSE x \in S : \A y \in S : y <= x

\* how deep archives are nested in a content: 0 for a file that is no archive
RECURSIVE NestingDepth(_)
NestingDepth(content) ==
    IF ~ is_zipfile(content) THEN 0
    ELSE 1 + Max({0} \cup {NestingDepth(m[2]) :
                    m \in {n \in ZipContents[content] :
                             EndsWith(Lower(n[1][Len(n[1])]), DotZip)}})

\* the maximum archive nesting depth of a directory
DirDepth(files) == Max({0} \cup {NestingDepth(files[z]) : z \in find_zips(files)})

\* C15 as stated: the number of expansion rounds of a resolver pass is the
\* maximum archive nesting depth of the directory: no round and no extract
\* call without a zip file, two rounds for a.zip holding b.zip.
C15_RoundsEqualDepth_Any ==
    \A k \in 1..Len(tasks) :
        LET t == tasks[k] IN
        (/\ AfterResolver(t)
         /\ CleanDir(fs[t.dir])
         /\ \A j \in 1..(t.i - 1) : t.results[j] = "done") =>
            /\ t.rounds = DirDepth(fs[t.dir])
            /\ find_zips(fs[t.dir]) = {} => (t.rounds = 0 /\ t.calls = NoCalls)

\* C15: a resolver pass that ends by its test has made no round and no
\* extract call when the directory holds no zip file, and otherwise one round
\* more than the number of its rounds that surfaced a new .zip path; the pass
\* after the download of a.zip (holding b.zip) into an empty directory makes
\* exactly two rounds, and a pass that finds a.zip and b.zip both on disk
\* makes one.
C15_RoundsFollowSurfacing ==
    \A k \in 1..Len(tasks) :
        LET t == tasks[k] IN
        AfterResolver(t) =>
            /\ find_zips(fs[t.dir]) = {} => (t.rounds = 0 /\ t.calls = NoCalls)
            /\ find_zips(fs[t.dir]) # {} => t.rounds = t.grew + 1
            /\ (t.i = 2 /\ t.artifacts[1] = A_a) => t.rounds = 2
            /\ (t.i = 3 /\ t.artifacts[1] = A_a /\ t.artifacts[2] = A_r
                  /\ t.results[1] = "done") => t.rounds = 1

\* the pass after the download of a.zip into an empty directory has ended
\* after two rounds
C15_Witness ==
    /\ Len(tasks) = 1
    /\ AfterResolver(tasks[1])
    /\ tasks[1].i = 2
    /\ tasks[1].artifacts[1] = A_a
    /\ tasks[1].rounds = 2
    /\ tasks[1].grew = 1

\* an extract call of task t has failed
ExpansionFailed(t) == \E j \in 1..Len(t.results) : t.results[j] = "badzip"

\* this step of task k is an extract call that expanded its archive
Expands(k) ==
    /\ tasks'[k].calls # tasks[k].calls
    /\ tasks'[k].results = tasks[k].results

\* every attachment of task t whose local file could be opened has been
\* requested and, when its download succeeded, gone through a resolver pass
\* that ended by its test
AllHandled(t) ==
    \A j \in 1..Len(t.artifacts) :
        \/ t.requests[j] = 1 /\ t.results[j] \in {"done", "urlerror"}
        \/ t.requests[j] = 0 /\ t.results[j] = "oserror"

\* C16: once an extract call has failed in a project's task, no archive of
\* that project is expanded any more; the tasks of the other projects still
\* download and expand all their attachments.
C16_FailedExpansionEndsResolution ==
    [][\A k \in 1..Len(tasks) :
          /\ ExpansionFailed(tasks[k]) => ~ Expands(k)
          /\ (/\ Finished(tasks[k])
              /\ ~ ExpansionFailed(tasks[k])
              /\ WellFormed(tasks[k].artifacts)) => AllHandled(tasks[k])]_vars

\* attachment j of task t is a (url, name) pair named as a zip file
ZipAttachment(t, j) ==
    /\ Len(t.artifacts[j]) = 2
    /\ EndsWith(Lower(t.artifacts[j][2]), DotZip)

\* what the urls of task t serve under a .zip name are sound archives
SoundRemote(t) ==
    /\ WellFormed(t.artifacts)
    /\ \A j \in 1..Len(t.artifacts) :
          ZipAttachment(t, j) => CleanContent(UrlContent(t.artifacts[j][1]))

\* C19: when a project task has finished, every zip attachment whose
\* download succeeded has been expanded, also when the download of another
\* attachment failed: no resolver pass fails because of a failed download.
C19_DownloadedArchivesExpanded ==
    \A k \in 1..Len(tasks) :
        LET t == tasks[k] IN
        (t.pc = "returned" /\ SoundRemote(t)) =>
            \A j \in 1..Len(t.artifacts) :
                /\ t.results[j] \in {"done", "urlerror", "oserror"}
                /\ (t.results[j] = "done" /\ ZipAttachment(t, j))
                      => <<t.artifacts[j][2]>> \in DOMAIN t.calls

\* the event is the start-tag of an anchor
IsAnchorStart(ev) == ev.kind = "starttag" /\ ev.tag = "a"

\* the event is the end-tag of a header cell or of a data cell
IsCellEnd(ev) == ev.kind = "endtag" /\ ev.tag \in {"td", "th"}

\* the event just handled appended no cell to the row buffer
RowSame ==
    /\ parser'.self.currentRow = parser.self.currentRow
    /\ parser'.self.rowIsNone = parser.self.rowIsNone

\* the event just handled left the row buffer as it was and raised nothing
RowUntouched == RowSame /\ parser'.self.raised = "none"

\* C17: an anchor start-tag handled inside a header cell, that is after a th
\* start-tag with no th end-tag since, never appends a link cell to the
\* current row, for any sequence of parse events.
C17_HeaderAnchorsIgnored ==
    [][(parser.headerOpen /\ IsAnchorStart(parser'.last)) => RowSame]_vars

\* the event just handled is the end-tag of a data cell, or the end-tag of
\* the header cell that was open
ClosesCell ==
    /\ IsCellEnd(parser'.last)
    /\ parser'.last.tag = "th" => parser.headerOpen

\* C20: the inside-a-cell flag is false after every cell end-tag, and text
\* that follows a closed header or data cell is neither appended to a row
\* nor applied to a row buffer that is None.
C20_TextOnlyInsideCells ==
    [][/\ ClosesCell => ~ parser'.self.inCell
       /\ (IsCellEnd(parser.last) /\ parser'.last.kind = "data") => RowUntouched]_vars

====
